---- MODULE Spec2Model ----
(***************************************************************************)
(* A model of notebooks/utils.py: the class SwwNorms, which parses a       *)
(* small-world-of-words csv file into a list of trials, filters the trials *)
(* by vocabulary and by stimulus counts, gathers the associates of every   *)
(* stimulus word and filters the gathered associates.                      *)
(*                                                                         *)
(* A string is a sequence of one-character strings, so that strip, split   *)
(* and lower are computed character by character.  A dict with string keys *)
(* is a function whose DOMAIN is the set of its keys.                      *)
(***************************************************************************)
EXTENDS Integers, Sequences, FiniteSets, TLC

VARIABLES
    file,               \* the text of the csv file handed to __init__
    pc,                 \* "new" before __init__ has run, "ready" after
    association_norms,  \* self.association_norms
    associates,         \* self.associates: <<>> while the attribute does not
                        \* exist, <<d>> once it holds the dict d
    call,               \* the last call and its arguments
    pre_norms,          \* self.association_norms when the last call started
    pre_associates,     \* self.associates when the last call started
    ret                 \* the outcome of the last call

vars == <<file, pc, association_norms, associates, call, pre_norms,
          pre_associates, ret>>

\* ------------------------------------------------------------------ bounds

\* The largest number of lines of an input file.
MaxLines == 3

\* The largest threshold handed to a filter (thresholds range over
\* 0 .. MaxThreshold).
MaxThreshold == 2

\* ------------------------------------------------------------- str methods

Min(a, b) == IF a < b THEN a ELSE b

NL == "\n"

\* str.lower on one character.
LowerChar(c) ==
    CASE c = "A" -> "a"
      [] c = "B" -> "b"
      [] c = "X" -> "x"
      [] c = "Y" -> "y"
      [] c = "Z" -> "z"
      [] OTHER -> c

\* str.lower: every character lowercased.
lower(s) == [i \in 1..Len(s) |-> LowerChar(s[i])]

\* The characters str.strip removes.
IsSpace(c) == c \in {" ", NL, "\t", "\r"}

\* str.strip: the string without its leading and trailing whitespace.
strip(s) ==
    IF \A i \in 1..Len(s) : IsSpace(s[i]) THEN <<>>
    ELSE LET first == CHOOSE i \in 1..Len(s) :
                          /\ ~IsSpace(s[i])
                          /\ \A j \in 1..(i-1) : IsSpace(s[j])
             last  == CHOOSE i \in 1..Len(s) :
                          /\ ~IsSpace(s[i])
                          /\ \A j \in (i+1)..Len(s) : IsSpace(s[j])
         IN SubSeq(s, first, last)

\* str.split(sep): the pieces between the occurrences of sep; the empty
\* string gives one empty piece.
RECURSIVE split(_, _)
split(s, sep) ==
    IF \A i \in 1..Len(s) : s[i] # sep THEN <<s>>
    ELSE LET i == CHOOSE i \in 1..Len(s) :
                      /\ s[i] = sep
                      /\ \A j \in 1..(i-1) : s[j] # sep
         IN <<SubSeq(s, 1, i-1)>> \o split(SubSeq(s, i+1, Len(s)), sep)

\* ---------------------------------------------------------------- __init__

\* 'ctr word assoc_1 assoc_2 assoc_3'.split()
KEYS == <<"ctr", "word", "assoc_1", "assoc_2", "assoc_3">>

\* dict(zip(keys, values)): zip stops at the shorter of the two.
dict_zip(keys, values) ==
    LET n == Min(Len(keys), Len(values))
    IN [k \in {keys[i] : i \in 1..n} |->
            values[CHOOSE i \in 1..n : keys[i] = k]]

\* The list __init__ builds from the text of the file.
parse_rows(rows) == [i \in 1..Len(rows) |-> dict_zip(KEYS, split(rows[i], ";"))]

parse(text) == parse_rows(split(strip(text), NL))

\* ------------------------------------------------------------- input files

\* One line of the file: five fields joined by ';'.
Row(ctr, word, a1, a2, a3) ==
    ctr \o <<";">> \o word \o <<";">> \o a1 \o <<";">> \o a2 \o <<";">> \o a3

\* The lines a file is made of: three trials and the empty line.
Lines ==
    { Row(<<"1">>, <<"a">>, <<"x">>, <<"y">>, <<"y">>),
      Row(<<"2">>, <<"A">>, <<"y">>, <<"X">>, <<"z">>),
      Row(<<"3">>, <<"b">>, <<"x">>, <<"x">>, <<"x">>),
      <<>> }

\* '\n'.join(lines)
RECURSIVE join(_)
join(lines) ==
    IF lines = <<>> THEN <<>>
    ELSE IF Len(lines) = 1 THEN lines[1]
    ELSE lines[1] \o <<NL>> \o join(Tail(lines))

Files == UNION { {join(ls) : ls \in [1..n -> Lines]} : n \in 0..MaxLines }

\* The vocabularies handed to filter_norms_by_vocabulary.
Vocabularies ==
    { {},
      {<<"a">>, <<"x">>, <<"y">>},
      {<<"a">>, <<"x">>, <<"y">>, <<"z">>},
      {<<"b">>, <<"x">>},
      {<<"A">>, <<"X">>, <<"x">>, <<"y">>, <<"z">>},
      {<<"a">>, <<"b">>, <<"x">>, <<"y">>, <<"z">>} }

Thresholds == 0..MaxThreshold

\* ------------------------------------------------------------ the outcomes

None == [kind |-> "none", val |-> <<>>]
Value(v) == [kind |-> "value", val |-> v]
Raise(e) == [kind |-> "raise", val |-> e]

NoCall ==
    [op |-> "none", vocab_dictionary |-> {}, minimum_cue_word_count |-> 0,
     minimum_number_of_associates |-> 0, minimum_associate_count |-> 0,
     in_place |-> FALSE]

\* trial_data[key] raises KeyError for some key of keys.
KeyErrorIn(norms, keys) ==
    \E i \in 1..Len(norms) : \E key \in keys : key \notin DOMAIN norms[i]

\* ------------------------------------------------ the in_place convention

\* assigned with the in_place test lost: the attribute is always replaced.
assigned_always(in_place, attribute, filtered) == filtered

\* The value a filter leaves in the attribute it targets: the filtered
\* value if in_place, the attribute's own value otherwise.
assigned(in_place, attribute, filtered) ==
    IF in_place THEN filtered ELSE attribute

\* What a filter returns: nothing if in_place, the filtered value otherwise.
returned(in_place, filtered) ==
    IF in_place THEN None ELSE Value(filtered)

\* ---------------------------------------------- filter_norms_by_vocabulary

VOCAB_KEYS == {"word", "assoc_1", "assoc_2", "assoc_3"}

\* stimuli_in_bnc_vocab with the call of lower lost.
stimuli_in_bnc_vocab_cased(trial_data, vocab_dictionary) ==
    \A key \in VOCAB_KEYS : trial_data[key] \in vocab_dictionary

\* True if and only if the stimulus word and all three associates,
\* lowercased, are in the vocabulary.
stimuli_in_bnc_vocab(trial_data, vocab_dictionary) ==
    \A key \in VOCAB_KEYS : lower(trial_data[key]) \in vocab_dictionary

\* _association_norms of filter_norms_by_vocabulary
vocabulary_filtered(norms, vocab_dictionary) ==
    SelectSeq(norms, LAMBDA trial_data :
                         stimuli_in_bnc_vocab(trial_data, vocab_dictionary))

\* ----------------------------------------- filter_norms_by_stimulus_counts

\* Counter(list)[key]: the number of occurrences of key, 0 if there is none.
counter_get(list, key) == Cardinality({i \in 1..Len(list) : list[i] = key})

\* The list the Counter of cue words is built from.
cue_words(norms) == [i \in 1..Len(norms) |-> lower(norms[i]["word"])]

\* The key a trial's count is looked up with.
cue_word_key(response_trial) == response_trial["word"]

\* stimulus_counts_filtered with == in the place of >=.
stimulus_counts_filtered_equal(norms, minimum_cue_word_count) ==
    SelectSeq(norms, LAMBDA response_trial :
        counter_get(cue_words(norms), cue_word_key(response_trial))
            = minimum_cue_word_count)

\* _association_norms of filter_norms_by_stimulus_counts
stimulus_counts_filtered(norms, minimum_cue_word_count) ==
    SelectSeq(norms, LAMBDA response_trial :
        counter_get(cue_words(norms), cue_word_key(response_trial))
            >= minimum_cue_word_count)

\* ------------------------------------------------------- gather_associates

\* gather_key with the call of lower lost.
gather_key_cased(response_trial) == response_trial["word"]

\* The stimulus word a trial's associates are gathered under.
gather_key(response_trial) == lower(response_trial["word"])

\* associates[word] of the first loop: the lowercased associates of the
\* trials of the word, in trial order.
RECURSIVE gathered_list(_, _)
gathered_list(norms, word) ==
    IF norms = <<>> THEN <<>>
    ELSE LET response_trial == Head(norms)
         IN (IF gather_key(response_trial) = word
             THEN << lower(response_trial["assoc_1"]),
                     lower(response_trial["assoc_2"]),
                     lower(response_trial["assoc_3"]) >>
             ELSE <<>>)
            \o gathered_list(Tail(norms), word)

\* Counter(list).items(): the distinct elements of the list in the order of
\* their first occurrence, each with its number of occurrences.
RECURSIVE counter_items_from(_, _)
counter_items_from(list, i) ==
    IF i > Len(list) THEN <<>>
    ELSE (IF \E j \in 1..(i-1) : list[j] = list[i]
          THEN <<>>
          ELSE << <<list[i], counter_get(list, list[i])>> >>)
         \o counter_items_from(list, i + 1)

counter_items(list) == counter_items_from(list, 1)

\* insert_by_count with reverse=True lost: the list ascends.
insert_by_count_ascending(sorted_items, item) ==
    LET n == Cardinality({i \in 1..Len(sorted_items) :
                              sorted_items[i][2] <= item[2]})
    IN SubSeq(sorted_items, 1, n) \o <<item>>
           \o SubSeq(sorted_items, n + 1, Len(sorted_items))

\* The place of item in a list sorted by count, descending: after every
\* entry whose count is at least its own (the sort is stable).
insert_by_count(sorted_items, item) ==
    LET n == Cardinality({i \in 1..Len(sorted_items) :
                              sorted_items[i][2] >= item[2]})
    IN SubSeq(sorted_items, 1, n) \o <<item>>
           \o SubSeq(sorted_items, n + 1, Len(sorted_items))

\* sorted(items, key=lambda item: item[1], reverse=True)
RECURSIVE sorted_by_count(_)
sorted_by_count(items) ==
    IF items = <<>> THEN <<>>
    ELSE insert_by_count(sorted_by_count(SubSeq(items, 1, Len(items) - 1)),
                         items[Len(items)])

\* _associates of gather_associates
gathered(norms) ==
    [cue_word \in {gather_key(norms[i]) : i \in 1..Len(norms)} |->
        sorted_by_count(counter_items(gathered_list(norms, cue_word)))]

\* ---------------------------------------------- filter_norms_by_associates

\* list[index] raises IndexError.
index_error(list, index) == index >= Len(list) \/ index < -Len(list)

\* list[index], a negative index counting from the end.
item_at(list, index) ==
    IF index >= 0 THEN list[index + 1] ELSE list[Len(list) + index + 1]

\* rank_index without the - 1.
rank_index_off_by_one(minimum_number_of_associates) ==
    minimum_number_of_associates

\* The index has_frequent_associates reads.
rank_index(minimum_number_of_associates) == minimum_number_of_associates - 1

has_frequent_associates(cue_associates_item, min_number, min_count) ==
    IF index_error(cue_associates_item, rank_index(min_number))
    THEN FALSE
    ELSE item_at(cue_associates_item, rank_index(min_number))[2] >= min_count

\* _associates of filter_norms_by_associates
associates_filtered(d, min_number, min_count) ==
    [cue_word \in {w \in DOMAIN d :
                      has_frequent_associates(d[w], min_number, min_count)} |->
        d[cue_word]]

\* self_associates with an empty dict in the place of the missing attribute.
self_associates_default(attribute) ==
    IF attribute = <<>> THEN Value(<<>>) ELSE Value(attribute[1])

\* Reading self.associates: AttributeError while gather_associates has not
\* set the attribute, its value afterwards.
self_associates(attribute) ==
    IF attribute = <<>> THEN Raise("AttributeError") ELSE Value(attribute[1])

\* ----------------------------------------------------------------- actions

Init ==
    /\ file \in Files
    /\ pc = "new"
    /\ association_norms = <<>>
    /\ associates = <<>>
    /\ call = NoCall
    /\ pre_norms = <<>>
    /\ pre_associates = <<>>
    /\ ret = None

\* SwwNorms(sww_norms_csv_fname)
Construct ==
    /\ pc = "new"
    /\ pc' = "ready"
    /\ association_norms' = parse(file)
    /\ call' = [NoCall EXCEPT !.op = "__init__"]
    /\ pre_norms' = association_norms
    /\ pre_associates' = associates
    /\ ret' = None
    /\ UNCHANGED <<file, associates>>

\* len(norms)
LenCall ==
    /\ pc = "ready"
    /\ call' = [NoCall EXCEPT !.op = "__len__"]
    /\ pre_norms' = association_norms
    /\ pre_associates' = associates
    /\ ret' = Value(Len(association_norms))
    /\ UNCHANGED <<file, pc, association_norms, associates>>

\* norms.filter_norms_by_vocabulary(vocab_dictionary, in_place)
FilterVocabulary ==
    /\ pc = "ready"
    /\ \E vocab_dictionary \in Vocabularies, in_place \in BOOLEAN :
        /\ call' = [NoCall EXCEPT !.op = "filter_norms_by_vocabulary",
                                  !.vocab_dictionary = vocab_dictionary,
                                  !.in_place = in_place]
        /\ IF KeyErrorIn(association_norms, VOCAB_KEYS)
           THEN /\ ret' = Raise("KeyError")
                /\ UNCHANGED association_norms
           ELSE LET _association_norms ==
                        vocabulary_filtered(association_norms, vocab_dictionary)
                IN /\ association_norms' =
                          assigned(in_place, association_norms,
                                   _association_norms)
                   /\ ret' = returned(in_place, _association_norms)
    /\ pre_norms' = association_norms
    /\ pre_associates' = associates
    /\ UNCHANGED <<file, pc, associates>>

\* norms.filter_norms_by_stimulus_counts(minimum_cue_word_count, in_place)
FilterStimulusCounts ==
    /\ pc = "ready"
    /\ \E minimum_cue_word_count \in Thresholds, in_place \in BOOLEAN :
        /\ call' = [NoCall EXCEPT !.op = "filter_norms_by_stimulus_counts",
                                  !.minimum_cue_word_count =
                                      minimum_cue_word_count,
                                  !.in_place = in_place]
        /\ IF KeyErrorIn(association_norms, {"word"})
           THEN /\ ret' = Raise("KeyError")
                /\ UNCHANGED association_norms
           ELSE LET _association_norms ==
                        stimulus_counts_filtered(association_norms,
                                                 minimum_cue_word_count)
                IN /\ association_norms' =
                          assigned(in_place, association_norms,
                                   _association_norms)
                   /\ ret' = returned(in_place, _association_norms)
    /\ pre_norms' = association_norms
    /\ pre_associates' = associates
    /\ UNCHANGED <<file, pc, associates>>

\* norms.gather_associates()
GatherAssociates ==
    /\ pc = "ready"
    /\ call' = [NoCall EXCEPT !.op = "gather_associates"]
    /\ IF KeyErrorIn(association_norms, VOCAB_KEYS)
       THEN /\ ret' = Raise("KeyError")
            /\ UNCHANGED associates
       ELSE /\ associates' = <<gathered(association_norms)>>
            /\ ret' = None
    /\ pre_norms' = association_norms
    /\ pre_associates' = associates
    /\ UNCHANGED <<file, pc, association_norms>>

\* norms.filter_norms_by_associates(minimum_number_of_associates,
\*                                  minimum_associate_count, in_place)
FilterAssociates ==
    /\ pc = "ready"
    /\ \E minimum_number_of_associates \in Thresholds,
          minimum_associate_count \in Thresholds, in_place \in BOOLEAN :
        /\ call' = [NoCall EXCEPT !.op = "filter_norms_by_associates",
                                  !.minimum_number_of_associates =
                                      minimum_number_of_associates,
                                  !.minimum_associate_count =
                                      minimum_associate_count,
                                  !.in_place = in_place]
        /\ LET read == self_associates(associates)
           IN IF read.kind = "raise"
              THEN /\ ret' = read
                   /\ UNCHANGED associates
              ELSE LET _associates ==
                           associates_filtered(read.val,
                                               minimum_number_of_associates,
                                               minimum_associate_count)
                   IN /\ associates' =
                             <<assigned(in_place, read.val, _associates)>>
                      /\ ret' = returned(in_place, _associates)
    /\ pre_norms' = association_norms
    /\ pre_associates' = associates
    /\ UNCHANGED <<file, pc, association_norms>>

Next ==
    \/ Construct
    \/ LenCall
    \/ FilterVocabulary
    \/ FilterStimulusCounts
    \/ GatherAssociates
    \/ FilterAssociates

Spec == Init /\ [][Next]_vars

\* ------------------------------------------------------ what a call did

\* The last call was op and did not raise.
Completed(op) == call.op = op /\ ret.kind # "raise"

\* The filtered list of the last trial filter: the new value of
\* association_norms if in_place, the returned value otherwise.
FilteredNorms == IF call.in_place THEN association_norms ELSE ret.val

\* The filtered dict of the last filter_norms_by_associates.
FilteredAssociates == IF call.in_place THEN associates[1] ELSE ret.val

\* The number of trials of norms whose lowercased stimulus is that of t.
LowerCount(norms, t) ==
    Cardinality({i \in 1..Len(norms) :
                    lower(norms[i]["word"]) = lower(t["word"])})

\* a is a subsequence of b.
RECURSIVE IsSubseq(_, _)
IsSubseq(a, b) ==
    IF a = <<>> THEN TRUE
    ELSE IF b = <<>> THEN FALSE
    ELSE IF Head(a) = Head(b) THEN IsSubseq(Tail(a), Tail(b))
    ELSE IsSubseq(a, Tail(b))

\* The lines of the file that hold a trial, in file order.
TrialLines(text) == SelectSeq(split(text, NL), LAMBDA line : line # <<>>)

\* The number of lines of the file that hold a trial: the places where a
\* character other than the newline starts a line.
NumTrialLines(text) ==
    Cardinality({i \in 1..Len(text) :
                    text[i] # NL /\ (i = 1 \/ text[i-1] = NL)})

\* ------------------------------------------------------------------ claims

\* C1: filter_norms_by_stimulus_counts(k) with k >= 1 keeps a trial if and
\* only if at least k of the current trials have its lowercased stimulus.
C1_KeepsIffLowercasedCount ==
    (Completed("filter_norms_by_stimulus_counts")
        /\ call.minimum_cue_word_count >= 1)
    => FilteredNorms =
         SelectSeq(pre_norms, LAMBDA t :
             LowerCount(pre_norms, t) >= call.minimum_cue_word_count)

\* C2: filter_norms_by_associates(N, M) with N >= 1 and M >= 1 keeps a
\* stimulus if and only if its list has at least N entries and each of the
\* first N has count >= M, which is to say the entry at rank N has count
\* >= M; a kept stimulus keeps its whole list.
C2_AssociatesFilterKeepsIff ==
    (Completed("filter_norms_by_associates")
        /\ call.minimum_number_of_associates >= 1
        /\ call.minimum_associate_count >= 1)
    => LET d == pre_associates[1]
           r == FilteredAssociates
           N == call.minimum_number_of_associates
           M == call.minimum_associate_count
       IN /\ DOMAIN r = {s \in DOMAIN d :
                            /\ Len(d[s]) >= N
                            /\ \A i \in 1..N : d[s][i][2] >= M}
          /\ DOMAIN r = {s \in DOMAIN d : Len(d[s]) >= N /\ d[s][N][2] >= M}
          /\ \A s \in DOMAIN r : r[s] = d[s]

\* A call with N = 2 and M = 2 that kept a stimulus of three associates
\* and dropped one that has fewer than N associates.
C2_Witness ==
    /\ Completed("filter_norms_by_associates")
    /\ call.minimum_number_of_associates = 2
    /\ call.minimum_associate_count = 2
    /\ \E s \in DOMAIN FilteredAssociates : Len(FilteredAssociates[s]) = 3
    /\ \E s \in DOMAIN pre_associates[1] :
           s \notin DOMAIN FilteredAssociates /\ Len(pre_associates[1][s]) < 2

\* C3: filter_norms_by_vocabulary gives exactly the trials whose stimulus
\* and three associates, lowercased, are all in the vocabulary, in their
\* order and with their fields as they were.
C3_VocabularyFilterExact ==
    Completed("filter_norms_by_vocabulary")
    => FilteredNorms =
         SelectSeq(pre_norms, LAMBDA t :
             /\ lower(t["word"]) \in call.vocab_dictionary
             /\ lower(t["assoc_1"]) \in call.vocab_dictionary
             /\ lower(t["assoc_2"]) \in call.vocab_dictionary
             /\ lower(t["assoc_3"]) \in call.vocab_dictionary)

\* A call that dropped a trial and kept one whose fields are not all
\* lowercase, after one it kept that is.
C3_Witness ==
    /\ Completed("filter_norms_by_vocabulary")
    /\ Len(FilteredNorms) < Len(pre_norms)
    /\ Len(FilteredNorms) >= 2
    /\ \E i \in 1..Len(FilteredNorms) :
           FilteredNorms[i]["word"] # lower(FilteredNorms[i]["word"])

\* The number of times a occurs among the lowercased associates of the
\* trials of norms whose lowercased stimulus is s.
Occurrences(norms, s, a) ==
    Cardinality({ik \in (1..Len(norms)) \X {"assoc_1", "assoc_2", "assoc_3"} :
                    /\ lower(norms[ik[1]]["word"]) = s
                    /\ lower(norms[ik[1]][ik[2]]) = a})

\* The fields of the trials of norms, as they are and lowercased.
FieldsOf(norms) ==
    UNION {{norms[i][k], lower(norms[i][k])} : i \in 1..Len(norms), k \in VOCAB_KEYS}

\* C4: after gather_associates the keys of associates are the lowercased
\* stimulus words of the trials, and the list of a key holds the pair
\* (a, c) if and only if c >= 1 is the number of occurrences of a among the
\* lowercased associates of the trials of the key, each associate once.
C4_GatherCounts ==
    Completed("gather_associates")
    => LET d == associates[1]
       IN /\ DOMAIN d = {lower(pre_norms[i]["word"]) : i \in 1..Len(pre_norms)}
          /\ \A s \in DOMAIN d :
              /\ \A i \in 1..Len(d[s]) :
                     /\ d[s][i][2] >= 1
                     /\ d[s][i][2] = Occurrences(pre_norms, s, d[s][i][1])
              /\ \A a \in FieldsOf(pre_norms) :
                     Occurrences(pre_norms, s, a) >= 1
                     => \E i \in 1..Len(d[s]) :
                            d[s][i] = <<a, Occurrences(pre_norms, s, a)>>
              /\ \A i, j \in 1..Len(d[s]) :
                     i # j => d[s][i][1] # d[s][j][1]

\* A gather over two trials whose stimuli differ only in case, with an
\* associate counted across both.
C4_Witness ==
    /\ Completed("gather_associates")
    /\ \E i, j \in 1..Len(pre_norms) :
           /\ pre_norms[i]["word"] # pre_norms[j]["word"]
           /\ lower(pre_norms[i]["word"]) = lower(pre_norms[j]["word"])
           /\ \E n \in 1..Len(associates[1][lower(pre_norms[i]["word"])]) :
                  associates[1][lower(pre_norms[i]["word"])][n][2] >= 2

\* C5: whenever associates exists, the counts of the list of every
\* stimulus are non-increasing.
C5_CountsNonIncreasing ==
    associates # <<>>
    => \A s \in DOMAIN associates[1] :
           \A i, j \in 1..Len(associates[1][s]) :
               i < j => associates[1][s][i][2] >= associates[1][s][j][2]

\* After an in-place associate filter and a later in-place trial filter,
\* associates still holds a list of three different counts.
C5_Witness ==
    /\ associates # <<>>
    /\ call.in_place
    /\ call.op = "filter_norms_by_vocabulary"
    /\ association_norms # pre_norms
    /\ \E s \in DOMAIN associates[1] :
           /\ Len(associates[1][s]) = 3
           /\ associates[1][s][1][2] > associates[1][s][2][2]
           /\ associates[1][s][2][2] > associates[1][s][3][2]

\* The value the last call's filter computes from the state it started in.
FilterValue ==
    CASE call.op = "filter_norms_by_vocabulary" ->
             vocabulary_filtered(pre_norms, call.vocab_dictionary)
      [] call.op = "filter_norms_by_stimulus_counts" ->
             stimulus_counts_filtered(pre_norms, call.minimum_cue_word_count)
      [] call.op = "filter_norms_by_associates" ->
             associates_filtered(pre_associates[1],
                                 call.minimum_number_of_associates,
                                 call.minimum_associate_count)

TrialFilters ==
    {"filter_norms_by_vocabulary", "filter_norms_by_stimulus_counts"}

Filters == TrialFilters \cup {"filter_norms_by_associates"}

\* C6: a filter call that completes with in_place false returns the
\* filtered value and leaves trials and associates as they were; with
\* in_place true it returns nothing, leaves the filtered value in the
\* attribute it targets and leaves the other attribute as it was.
C6_MutateOrReturn ==
    (call.op \in Filters /\ ret.kind # "raise")
    => IF call.in_place
       THEN /\ ret = None
            /\ IF call.op \in TrialFilters
               THEN /\ association_norms = FilterValue
                    /\ associates = pre_associates
               ELSE /\ associates = <<FilterValue>>
                    /\ association_norms = pre_norms
       ELSE /\ ret = Value(FilterValue)
            /\ association_norms = pre_norms
            /\ associates = pre_associates

\* A call with in_place false that returned fewer trials than the store
\* holds, which it left alone, associates existing.
C6_Witness ==
    /\ Completed("filter_norms_by_stimulus_counts")
    /\ ~call.in_place
    /\ associates # <<>>
    /\ Len(ret.val) < Len(association_norms)
    /\ Len(ret.val) > 0

\* C7: a store constructed from a file of N trial lines has length N, and
\* its i-th trial holds the five fields of the i-th trial line.
C7_RoundTripCount ==
    call.op = "__init__"
    => /\ Len(association_norms) = NumTrialLines(file)
       /\ \A i \in 1..Len(association_norms) :
              /\ DOMAIN association_norms[i] = {KEYS[k] : k \in 1..5}
              /\ \A k \in 1..5 :
                     association_norms[i][KEYS[k]] =
                         split(TrialLines(file)[i], ";")[k]

\* C8: for k1 <= k2 the result of filter_norms_by_stimulus_counts(k2) is a
\* subsequence of the result of filter_norms_by_stimulus_counts(k1) on the
\* same state.
C8_Monotone ==
    Completed("filter_norms_by_stimulus_counts")
    => \A k1 \in (-1)..(MaxThreshold + 1) :
           k1 <= call.minimum_cue_word_count
           => IsSubseq(FilteredNorms,
                       stimulus_counts_filtered(pre_norms, k1))

\* A call whose result is not empty and is shorter than the result for a
\* smaller threshold.
C8_Witness ==
    /\ Completed("filter_norms_by_stimulus_counts")
    /\ FilteredNorms # <<>>
    /\ \E k1 \in 1..MaxThreshold :
           /\ k1 < call.minimum_cue_word_count
           /\ Len(FilteredNorms) < Len(stimulus_counts_filtered(pre_norms, k1))

\* C9: filter_norms_by_associates on a store on which gather_associates
\* has not run raises, returns no mapping and leaves the store without
\* associates and with its trials; once gather_associates has run the call
\* with N >= 1 does not raise.
C9_RaisesBeforeGather ==
    call.op = "filter_norms_by_associates"
    => /\ pre_associates = <<>>
          => /\ ret.kind = "raise"
             /\ associates = <<>>
             /\ association_norms = pre_norms
       /\ (pre_associates # <<>> /\ call.minimum_number_of_associates >= 1)
          => ret.kind # "raise"

\* The call raised on a store whose trials an in-place filter had narrowed.
C9_Witness ==
    /\ call.op = "filter_norms_by_associates"
    /\ ret.kind = "raise"
    /\ association_norms # parse(file)

\* C10: after filter_norms_by_stimulus_counts(k, in_place=True) with
\* k >= 1 every remaining trial has the lowercased stimulus of at least k
\* remaining trials, and the same call again leaves the trials unchanged.
C10_InPlacePostcondition ==
    (Completed("filter_norms_by_stimulus_counts")
        /\ call.in_place
        /\ call.minimum_cue_word_count >= 1)
    => /\ \A i \in 1..Len(association_norms) :
              LowerCount(association_norms, association_norms[i])
                  >= call.minimum_cue_word_count
       /\ stimulus_counts_filtered(association_norms,
                                   call.minimum_cue_word_count)
              = association_norms

====
